---- MODULE Spec2Model ----
(***************************************************************************)
(* useCache: an in-memory key/value cache with a per-cache time-to-live    *)
(* and an entry-count capacity.  The cache is a JavaScript Map from the    *)
(* JSON text of the caller's key to {value, expiresAt}; a Map iterates in  *)
(* insertion order, so it is modelled as a sequence of entries without     *)
(* duplicate keys.                                                         *)
(*                                                                         *)
(* Time is counted in clock units; get, set and clear are synchronous, so  *)
(* each call is one step and reads one clock value.                        *)
(***************************************************************************)
EXTENDS Integers, Sequences, FiniteSets, TLC

\* ---------------------------------------------------------------- bounds
\* the clock runs from 0 to MaxTime
MaxTime == 2
\* the configurations: ttlMs is 0, ShortTTL (entries expire within MaxTime)
\* or LongTTL (nothing expires within MaxTime); capacity is -1..MaxCapacity
ShortTTL == 1
LongTTL == 10
MaxCapacity == 2

\* ------------------------------------------------- caller keys (type K)
\* A caller key is a JavaScript value: a string, undefined, or a plain
\* object whose properties are listed in their insertion order (the names
\* used are not integer-like, so insertion order is the enumeration order).
StringKey(s) == [type |-> "string", str |-> s, props |-> <<>>]

UndefinedKey == [type |-> "undefined", str |-> "", props |-> <<>>]

ObjectKey(props) == [type |-> "object", str |-> "", props |-> props]

Prop(n, v) == [name |-> n, val |-> v]

\* The key universes a run draws K from.
StringKeys == {StringKey("a"), StringKey("b"), StringKey("c")}

MixedKeys == {StringKey("a"), StringKey("b"), UndefinedKey}

ObjectKeys ==
  {ObjectKey(<<Prop("x", 1), Prop("y", 2)>>),
   ObjectKey(<<Prop("y", 2), Prop("x", 1)>>),
   StringKey("a")}

\* Two caller keys denote the same value: same type, same string, and for
\* objects the same properties whatever their insertion order.
SameProps(p, q) ==
  {p[i] : i \in 1..Len(p)} = {q[i] : i \in 1..Len(q)}

SemanticallyEqual(k1, k2) ==
  /\ k1.type = k2.type
  /\ k1.str = k2.str
  /\ SameProps(k1.props, k2.props)

\* ------------------------------------------------------- values (type V)
\* The cache never inspects a value; two distinct ones tell an overwrite
\* from the value it replaces.
V == {1, 2}

\* get's `undefined` result, distinct from every value
Absent == 0

\* ------------------------------------------------- JSON.stringify(key)
\* What JSON.stringify returns: a string (JSON text), or the value
\* undefined for an undefined key.
JsString(s) == [t |-> "string", s |-> s]

JsUndefined == [t |-> "undefined", s |-> ""]

JsNull == [t |-> "null", s |-> ""]

\* JavaScript truthiness of a string | null | undefined
Truthy(x) == x.t = "string" /\ x.s # ""

Digits == <<"0", "1", "2", "3", "4", "5", "6", "7", "8", "9">>

NumberText(n) == Digits[n + 1]

Quote(s) == "\"" \o s \o "\""

RECURSIVE PropsText(_, _)
PropsText(props, i) ==
  IF i > Len(props) THEN ""
  ELSE (IF i > 1 THEN "," ELSE "")
         \o Quote(props[i].name) \o ":" \o NumberText(props[i].val)
         \o PropsText(props, i + 1)

getCacheKey(key) ==
  IF key.type = "undefined" THEN JsUndefined
  ELSE IF key.type = "string" THEN JsString(Quote(key.str))
  ELSE JsString("{" \o PropsText(key.props, 1) \o "}")

\* ------------------------------------------------------------ the state
VARIABLES
  K,         \* the caller keys in use (the type parameter K)
  ttlMs,     \* configuration, fixed at construction
  capacity,  \* configuration, fixed at construction
  now,       \* Date.now()
  cache,     \* cacheRef.current: entries in Map iteration order
  call,      \* the most recent call of get/set/clear and what it returned
  hist,      \* per canonical key: the most recent set and what became of it
  setLog,    \* the keys set since construction and the time of the first
             \* set, while no key was set twice and clear was not called
  pending,   \* per caller: the set call it is in the middle of, if any
  overlapped \* whether two set calls have run interleaved so far

vars ==
  <<K, ttlMs, capacity, now, cache, call, hist, setLog, pending, overlapped>>

\* ------------------------------------------------------ Map operations
Has(c, cacheKey) == \E i \in 1..Len(c) : c[i].key = cacheKey

IndexOf(c, cacheKey) == CHOOSE i \in 1..Len(c) : c[i].key = cacheKey

MapDelete(c, cacheKey) == SelectSeq(c, LAMBDA e : e.key # cacheKey)

MapSet_keepExpiry(c, cacheKey, entry) ==
  IF Has(c, cacheKey)
  THEN [c EXCEPT ![IndexOf(c, cacheKey)].value = entry.value]
  ELSE Append(c, [key |-> cacheKey, value |-> entry.value,
                  expiresAt |-> entry.expiresAt])

MapSet_ifAbsent(c, cacheKey, entry) ==
  IF Has(c, cacheKey) THEN c
  ELSE Append(c, [key |-> cacheKey, value |-> entry.value,
                  expiresAt |-> entry.expiresAt])

\* Map.set keeps the position of a key that is already present
MapSet(c, cacheKey, entry) ==
  LET e == [key |-> cacheKey, value |-> entry.value,
            expiresAt |-> entry.expiresAt]
  IN IF Has(c, cacheKey)
     THEN [c EXCEPT ![IndexOf(c, cacheKey)] = e]
     ELSE Append(c, e)

KeysOf(c) == {c[i].key : i \in 1..Len(c)}

\* ------------------------------------------------------------- helpers
isExpired_strict(entry, time) == entry.expiresAt < time

isExpired(entry, time) == entry.expiresAt <= time

getCacheEntry(value, time) == [value |-> value, expiresAt |-> time + ttlMs]

pruneExpiredEntries_strict(c, time) ==
  SelectSeq(c, LAMBDA e : ~(e.expiresAt < time))

pruneExpiredEntries(c, time) ==
  SelectSeq(c, LAMBDA e : ~(e.expiresAt <= time))

\* larger than every expiresAt the model can produce
Infinity == MaxTime + ShortTTL + LongTTL + 1

RECURSIVE soonestScan_lastTie(_, _, _, _)
soonestScan_lastTie(c, i, soonestKey, soonestExpiry) ==
  IF i > Len(c) THEN soonestKey
  ELSE IF c[i].expiresAt <= soonestExpiry
       THEN soonestScan_lastTie(c, i + 1, c[i].key, c[i].expiresAt)
       ELSE soonestScan_lastTie(c, i + 1, soonestKey, soonestExpiry)

\* the for-loop of evictEntryIfOverCapacity, from position i on
RECURSIVE soonestScan(_, _, _, _)
soonestScan(c, i, soonestKey, soonestExpiry) ==
  IF i > Len(c) THEN soonestKey
  ELSE IF c[i].expiresAt < soonestExpiry
       THEN soonestScan(c, i + 1, c[i].key, c[i].expiresAt)
       ELSE soonestScan(c, i + 1, soonestKey, soonestExpiry)

evictEntryIfOverCapacity_unbounded(c) ==
  IF capacity <= 0 \/ Len(c) < capacity THEN c
  ELSE LET soonestKey == soonestScan(c, 1, JsNull, Infinity)
       IN IF Truthy(soonestKey) THEN MapDelete(c, soonestKey) ELSE c

evictEntryIfOverCapacity_allSoonest(c) ==
  IF Len(c) < capacity THEN c
  ELSE LET soonestKey == soonestScan(c, 1, JsNull, Infinity)
       IN IF Truthy(soonestKey)
          THEN LET soonestExpiry == c[IndexOf(c, soonestKey)].expiresAt
               IN SelectSeq(c, LAMBDA e : e.expiresAt # soonestExpiry)
          ELSE c

evictEntryIfOverCapacity(c) ==
  IF Len(c) < capacity THEN c
  ELSE LET soonestKey == soonestScan(c, 1, JsNull, Infinity)
       IN IF Truthy(soonestKey) THEN MapDelete(c, soonestKey) ELSE c

\* get(key): the map afterwards and the value returned
get_pruning(c, key, time) ==
  LET cacheKey == getCacheKey(key)
  IN IF ~Has(c, cacheKey) THEN [cache |-> pruneExpiredEntries(c, time),
                                result |-> Absent]
     ELSE LET cacheEntry == c[IndexOf(c, cacheKey)]
          IN IF isExpired(cacheEntry, time)
             THEN [cache |-> pruneExpiredEntries(c, time), result |-> Absent]
             ELSE [cache |-> pruneExpiredEntries(c, time),
                   result |-> cacheEntry.value]

get_refresh(c, key, time) ==
  LET cacheKey == getCacheKey(key)
  IN IF ~Has(c, cacheKey) THEN [cache |-> c, result |-> Absent]
     ELSE LET cacheEntry == c[IndexOf(c, cacheKey)]
          IN IF isExpired(cacheEntry, time)
             THEN [cache |-> MapDelete(c, cacheKey), result |-> Absent]
             ELSE [cache |-> [c EXCEPT ![IndexOf(c, cacheKey)].expiresAt =
                                          time + ttlMs],
                   result |-> cacheEntry.value]

get_stale(c, key, time) ==
  LET cacheKey == getCacheKey(key)
  IN IF ~Has(c, cacheKey) THEN [cache |-> c, result |-> Absent]
     ELSE [cache |-> c, result |-> c[IndexOf(c, cacheKey)].value]

get(c, key, time) ==
  LET cacheKey == getCacheKey(key)
  IN IF ~Has(c, cacheKey) THEN [cache |-> c, result |-> Absent]
     ELSE LET cacheEntry == c[IndexOf(c, cacheKey)]
          IN IF isExpired(cacheEntry, time)
             THEN [cache |-> MapDelete(c, cacheKey), result |-> Absent]
             ELSE [cache |-> c, result |-> cacheEntry.value]

\* set(key, value): the map afterwards
set_evictLast(c, key, value, time) ==
  evictEntryIfOverCapacity(
    MapSet(pruneExpiredEntries(c, time), getCacheKey(key),
           getCacheEntry(value, time)))

set(c, key, value, time) ==
  MapSet(evictEntryIfOverCapacity(pruneExpiredEntries(c, time)),
         getCacheKey(key), getCacheEntry(value, time))

clear_oneEntry(c) == IF c = <<>> THEN c ELSE Tail(c)

clear(c) == <<>>

\* ------------------------------------------------------- the bookkeeping
CanonicalKeys == {getCacheKey(k) : k \in K}

NoCall == [op |-> "create", key |-> UndefinedKey, result |-> Absent]

\* hist[ck]: status "never" (no set of ck yet), "set" (the most recent set
\* of ck ran at time `at` with `value`, and since then ck was neither
\* evicted for capacity nor cleared), or "gone" (evicted or cleared since).
NeverSet == [status |-> "never", at |-> 0, value |-> Absent]

Gone == [status |-> "gone", at |-> 0, value |-> Absent]

NoLog == [keys |-> <<>>, distinct |-> FALSE, since |-> 0]

\* The callers of set.  JavaScript runs each call to completion, so in Spec
\* no call is ever pending; SpecInterleaved runs the three statements of set
\* as separate steps of two callers.
Callers == {"first", "second"}

Idle == [pc |-> "idle", key |-> UndefinedKey, value |-> Absent]

\* ------------------------------------------------------------------ Init
InitWith(universes) ==
  /\ K \in universes
  /\ ttlMs \in {0, ShortTTL, LongTTL}
  /\ capacity \in (0 - 1)..MaxCapacity
  /\ now = 0
  /\ cache = <<>>
  /\ call = NoCall
  /\ hist = [ck \in CanonicalKeys |-> NeverSet]
  /\ setLog = [keys |-> <<>>, distinct |-> TRUE, since |-> 0]
  /\ pending = [p \in Callers |-> Idle]
  /\ overlapped = FALSE

Init == InitWith({StringKeys, MixedKeys})

InitObjects == InitWith({ObjectKeys})

InitInterleaved == InitWith({MixedKeys})

\* --------------------------------------------------------------- actions
\* the clock advances between calls
Tick ==
  /\ now < MaxTime
  /\ now' = now + 1
  /\ UNCHANGED <<K, ttlMs, capacity, cache, call, hist, setLog, pending,
               overlapped>>

Get(key) ==
  LET r == get(cache, key, now)
  IN /\ cache' = r.cache
     /\ call' = [op |-> "get", key |-> key, result |-> r.result]
     /\ UNCHANGED <<K, ttlMs, capacity, now, hist, setLog, pending,
                    overlapped>>

Set(key, value) ==
  LET cacheKey == getCacheKey(key)
      pruned == pruneExpiredEntries(cache, now)
      kept == evictEntryIfOverCapacity(pruned)
  IN /\ cache' = set(cache, key, value, now)
     /\ call' = [op |-> "set", key |-> key, result |-> Absent]
     /\ hist' = [ck \in CanonicalKeys |->
                   IF ck = cacheKey
                   THEN [status |-> "set", at |-> now, value |-> value]
                   ELSE IF ck \in KeysOf(pruned) \ KeysOf(kept)
                   THEN Gone
                   ELSE hist[ck]]
     /\ setLog' = IF setLog.distinct /\ hist[cacheKey].status = "never"
                  THEN [keys |-> Append(setLog.keys, key), distinct |-> TRUE,
                        since |-> IF setLog.keys = <<>> THEN now
                                  ELSE setLog.since]
                  ELSE NoLog
     /\ UNCHANGED <<K, ttlMs, capacity, now, pending, overlapped>>

Clear ==
  /\ cache' = clear(cache)
  /\ call' = [op |-> "clear", key |-> UndefinedKey, result |-> Absent]
  /\ hist' = [ck \in CanonicalKeys |->
                IF hist[ck].status = "never" THEN hist[ck] ELSE Gone]
  /\ setLog' = NoLog
  /\ UNCHANGED <<K, ttlMs, capacity, now, pending, overlapped>>

Next ==
  \/ Tick
  \/ \E key \in K : Get(key)
  \/ \E key \in K, value \in V : Set(key, value)
  \/ Clear

Spec == Init /\ [][Next]_vars

\* set(key, value) statement by statement, for a caller p
OthersPending(p) == \E q \in Callers \ {p} : pending[q].pc # "idle"

SetPrune(p, key, value) ==
  /\ pending[p].pc = "idle"
  /\ cache' = pruneExpiredEntries(cache, now)
  /\ pending' = [pending EXCEPT ![p] =
                   [pc |-> "evict", key |-> key, value |-> value]]
  /\ overlapped' = (overlapped \/ OthersPending(p))
  /\ UNCHANGED <<K, ttlMs, capacity, now, call, hist, setLog>>

SetEvict(p) ==
  /\ pending[p].pc = "evict"
  /\ cache' = evictEntryIfOverCapacity(cache)
  /\ pending' = [pending EXCEPT ![p].pc = "insert"]
  /\ UNCHANGED <<K, ttlMs, capacity, now, call, hist, setLog, overlapped>>

SetInsert(p) ==
  /\ pending[p].pc = "insert"
  /\ cache' = MapSet(cache, getCacheKey(pending[p].key),
                     getCacheEntry(pending[p].value, now))
  /\ pending' = [pending EXCEPT ![p] = Idle]
  /\ call' = [op |-> "set", key |-> pending[p].key, result |-> Absent]
  /\ UNCHANGED <<K, ttlMs, capacity, now, hist, setLog, overlapped>>

NextInterleaved ==
  \/ \E p \in Callers, key \in K, value \in V : SetPrune(p, key, value)
  \/ \E p \in Callers : SetEvict(p)
  \/ \E p \in Callers : SetInsert(p)

SpecInterleaved == InitInterleaved /\ [][NextInterleaved]_vars

SpecObjects == InitObjects /\ [][Next]_vars

\* ---------------------------------------------------------------- claims
\* the entries of c that are live (not expired) at time t
Live(c, t) == SelectSeq(c, LAMBDA e : e.expiresAt > t)

\* the position of the soonest-expiring entry of a non-empty c, the first one
\* in iteration order among those with the least expiresAt
Soonest(c) ==
  CHOOSE i \in 1..Len(c) :
    /\ \A j \in 1..Len(c) : c[i].expiresAt <= c[j].expiresAt
    /\ \A j \in 1..(i - 1) : c[j].expiresAt > c[i].expiresAt

\* A step of get, set or clear: the clock stands still, and call' names the
\* call and its key (hist' holds the value a set wrote).
IsCall == now' = now

\* C1 (capacity bound): with capacity >= 1, in the state reached when a set
\* call completes the map holds at most capacity entries.
C1_CapacityBound ==
  (capacity >= 1 /\ call.op = "set") => Len(cache) <= capacity

\* C2 (expiry): with ttlMs > 0, a key whose most recent set ran at time t and
\* that was since neither overwritten, evicted nor cleared reads as the value
\* set at every time before t + ttlMs and as absent from t + ttlMs on.
C2_Expiry ==
  ttlMs > 0 =>
    \A key \in K :
      LET h == hist[getCacheKey(key)]
      IN h.status = "set" =>
           get(cache, key, now).result =
             (IF now < h.at + ttlMs THEN h.value ELSE Absent)

\* a get at exactly t + ttlMs that found the entry of a set at t and
\* returned absent
C2_Witness ==
  /\ ttlMs > 0
  /\ call.op = "get"
  /\ call.result = Absent
  /\ hist[getCacheKey(call.key)].status = "set"
  /\ now = hist[getCacheKey(call.key)].at + ttlMs

\* C3 (round trip): with ttlMs > 0, a get of the key that the preceding
\* call set, with no clock advance in between, returns the value set; and
\* every set leaves the entry it writes in the map.
C3_RoundTrip ==
  [][IsCall =>
       /\ (/\ ttlMs > 0
           /\ call.op = "set"
           /\ hist[getCacheKey(call.key)].at = now
           /\ call'.op = "get"
           /\ call'.key = call.key)
          => call'.result = hist[getCacheKey(call.key)].value
       /\ call'.op = "set" =>
            \E i \in 1..Len(cache') :
              cache'[i] = [key |-> getCacheKey(call'.key),
                           value |-> hist'[getCacheKey(call'.key)].value,
                           expiresAt |-> now + ttlMs]
    ]_vars

\* a get that returned the value of a set made at the same clock value, on
\* a map that is full
C3_Witness ==
  /\ ttlMs > 0
  /\ capacity >= 2
  /\ Len(cache) = capacity
  /\ call.op = "get"
  /\ call.result \in V
  /\ hist[getCacheKey(call.key)].status = "set"
  /\ hist[getCacheKey(call.key)].at = now
  /\ call.result = hist[getCacheKey(call.key)].value

\* C4 (eviction on overflow): with capacity C >= 1, after sets of C + 1
\* distinct keys on a fresh cache, none of them expired, the first key
\* inserted reads as absent and the last one as its stored value; with
\* capacity 2 and the keys a, b, c set in this order, a is absent and b and c
\* read as their values.
C4_EvictionOnOverflow ==
  (/\ capacity >= 1
   /\ setLog.distinct
   /\ Len(setLog.keys) = capacity + 1
   /\ setLog.since + ttlMs > now)
  => LET first == setLog.keys[1]
         last == setLog.keys[capacity + 1]
     IN /\ get(cache, first, now).result = Absent
        /\ hist[getCacheKey(last)].status = "set"
        /\ get(cache, last, now).result = hist[getCacheKey(last)].value
        /\ (capacity = 2 /\ K = StringKeys) =>
             /\ hist[getCacheKey(setLog.keys[2])].status = "set"
             /\ get(cache, setLog.keys[2], now).result
                  = hist[getCacheKey(setLog.keys[2])].value

\* C5 (overwrite keeps the size): when the preceding call set key k, no
\* entry has expired since, and k is set again, the map has as many entries
\* after the second set as after the first, and k then reads as the second
\* value.
C5_OverwriteKeepsSize ==
  [][(/\ IsCall
      /\ call.op = "set"
      /\ call'.op = "set"
      /\ call'.key = call.key
      /\ \A i \in 1..Len(cache) : cache[i].expiresAt > now)
     => /\ Len(cache') = Len(cache)
        /\ get(cache', call.key, now').result
             = hist'[getCacheKey(call.key)].value
    ]_vars

\* C6 (clear): clear leaves the map empty, so that every key reads as
\* absent, and a set on the cleared map followed by a get at the same clock
\* value returns the value set (ttlMs > 0).
C6_Clear ==
  [][(IsCall /\ call'.op = "clear") =>
       /\ cache' = <<>>
       /\ \A key \in K : get(cache', key, now').result = Absent
       /\ ttlMs > 0 =>
            \A key \in K, value \in V :
              get(set(cache', key, value, now'), key, now').result = value
    ]_vars

\* clear has just run on a map that held a key set earlier
C6_Witness ==
  /\ call.op = "clear"
  /\ cache = <<>>
  /\ \E ck \in CanonicalKeys : hist[ck] = Gone

\* C7 (get is read-only except for lazy expiry): a get of key k leaves the
\* map as it was, entry for entry and in the same order, except that k's own
\* entry is deleted when its expiresAt <= now.
C7_GetFrame ==
  [][(IsCall /\ call'.op = "get") =>
       cache' = SelectSeq(cache,
                  LAMBDA e : ~(e.key = getCacheKey(call'.key)
                               /\ e.expiresAt <= now))
    ]_vars

\* a get has deleted its own expired entry and left another expired entry
\* in the map
C7_Witness ==
  /\ call.op = "get"
  /\ call.result = Absent
  /\ hist[getCacheKey(call.key)].status = "set"
  /\ hist[getCacheKey(call.key)].at + ttlMs <= now
  /\ ~Has(cache, getCacheKey(call.key))
  /\ \E i \in 1..Len(cache) : cache[i].expiresAt <= now

C9_GrowsWithN ==
  (/\ capacity <= 0
   /\ setLog.distinct
   /\ setLog.keys # <<>>
   /\ setLog.since + ttlMs > now)
  => Len(cache) = Len(setLog.keys)

\* C9 as amended: with capacity <= 0 every set runs the eviction step.  A
\* set on a map without live entries leaves exactly one entry.  Otherwise,
\* when the soonest-expiring live entry has a non-empty string as its key,
\* that entry is deleted and the map holds no more entries after the set
\* than it held live ones before; only when that entry is the one under the
\* undefined key is nothing deleted.  After every set the map holds at least
\* one entry, more than the capacity.
C9_NonPositiveCapacity ==
  [][(IsCall /\ call'.op = "set" /\ capacity <= 0) =>
       LET live == Live(cache, now)
           written == getCacheKey(call'.key)
       IN /\ Len(cache') >= 1
          /\ live = <<>> => Len(cache') = 1
          /\ live # <<>> =>
               LET soonest == live[Soonest(live)]
               IN IF Truthy(soonest.key)
                  THEN /\ Len(cache') <= Len(live)
                       /\ soonest.key # written => ~Has(cache', soonest.key)
                  ELSE /\ Len(cache') >= Len(live)
                       /\ Has(cache', soonest.key)
    ]_vars

\* with capacity <= 0, two distinct keys were set on a fresh cache, neither
\* has expired, and the map holds one entry
C9_Witness ==
  /\ capacity <= 0
  /\ call.op = "set"
  /\ setLog.distinct
  /\ Len(setLog.keys) = 2
  /\ setLog.since + ttlMs > now
  /\ Len(cache) = 1

\* C10 (key equality under canonicalization): two caller keys that are the
\* same composite value up to property insertion order have the same
\* canonical key, so a get of one right after a set of the other, with no
\* clock advance, returns the value set (ttlMs > 0).
C10_KeyEquality ==
  [][\A k2 \in K :
       (/\ IsCall
        /\ ttlMs > 0
        /\ call.op = "set"
        /\ hist[getCacheKey(call.key)].at = now
        /\ SemanticallyEqual(call.key, k2)
        /\ call'.op = "get"
        /\ call'.key = k2)
       => /\ getCacheKey(call.key) = getCacheKey(k2)
          /\ call'.result = hist[getCacheKey(call.key)].value
    ]_vars

\* the map c without the entry of cacheKey
Without(c, cacheKey) == SelectSeq(c, LAMBDA e : e.key # cacheKey)

\* C11 (victim selection): when a set finds the map, after pruning, non-empty
\* and with size >= capacity, the one entry it deletes before inserting is
\* the first in iteration order among those with the least expiresAt (an
\* entry under a non-empty string key is deleted, the one under the
\* undefined key is not); apart from the key being written, every other
\* remaining entry is left as it was, in the same order.
C11_VictimSelection ==
  [][(IsCall /\ call'.op = "set") =>
       LET live == Live(cache, now)
           written == getCacheKey(call'.key)
       IN (live # <<>> /\ Len(live) >= capacity) =>
            LET soonest == live[Soonest(live)]
            IN \/ Without(cache', written)
                    = Without(Without(live, soonest.key), written)
               \/ /\ ~Truthy(soonest.key)
                  /\ Without(cache', written) = Without(live, written)
    ]_vars

\* three keys were set at the same clock value on a cache of capacity 2: the
\* third set chose between two entries with the same expiresAt and deleted
\* the first one set
C11_Witness ==
  /\ K = StringKeys
  /\ capacity = 2
  /\ ttlMs > 0
  /\ now = 0
  /\ call.op = "set"
  /\ setLog.distinct
  /\ Len(setLog.keys) = 3
  /\ hist[getCacheKey(setLog.keys[1])] = Gone
  /\ Has(cache, getCacheKey(setLog.keys[2]))

\* C12 (FIFO under uniform TTL): no entry that a set leaves in the map, other
\* than the one it writes, was last written at a strictly earlier time than
\* an entry this set evicted.
C12_FifoUnderUniformTtl ==
  [][(IsCall /\ call'.op = "set") =>
       LET live == Live(cache, now)
           written == getCacheKey(call'.key)
       IN \A i, j \in 1..Len(live) :
            (/\ ~Has(cache', live[i].key)
             /\ live[j].key # written
             /\ Has(cache', live[j].key))
            => hist[live[j].key].at >= hist[live[i].key].at
    ]_vars

\* keys set at clock values 0, 1 and 2 on a cache of capacity 2: the one set
\* at 0 was evicted and the one set at 1 stayed
C12_Witness ==
  /\ capacity = 2
  /\ call.op = "set"
  /\ setLog.distinct
  /\ Len(setLog.keys) = 3
  /\ hist[getCacheKey(setLog.keys[1])] = Gone
  /\ hist[getCacheKey(setLog.keys[2])].status = "set"
  /\ hist[getCacheKey(setLog.keys[2])].at = 1
  /\ hist[getCacheKey(setLog.keys[3])].at = 2
  /\ Has(cache, getCacheKey(setLog.keys[2]))

\* C13 (at most one eviction per set): a set removes at most one entry that
\* is live at the time of the call, and none when fewer than capacity entries
\* are live; every live entry whose key stays in the map, other than the
\* key being written, keeps its value and expiresAt.
C13_AtMostOneEviction ==
  [][(IsCall /\ call'.op = "set") =>
       LET live == Live(cache, now)
           written == getCacheKey(call'.key)
           removed == {i \in 1..Len(live) : ~Has(cache', live[i].key)}
       IN /\ Cardinality(removed) <= 1
          /\ Len(live) < capacity => removed = {}
          /\ \A i \in 1..Len(live) :
               (i \notin removed /\ live[i].key # written) =>
                 \E j \in 1..Len(cache') : cache'[j] = live[i]
    ]_vars

\* a set on a map with room left: two keys stored, none evicted
C13_Witness ==
  /\ capacity = 2
  /\ call.op = "set"
  /\ Len(cache) = 2
  /\ \A ck \in CanonicalKeys : hist[ck] # Gone

C15_ExpiryStamp ==
  /\ [](\A i \in 1..Len(cache) :
          /\ hist[cache[i].key].status = "set"
          /\ cache[i].expiresAt = hist[cache[i].key].at + ttlMs
          /\ cache[i].expiresAt <= now + ttlMs
          /\ \A j \in 1..Len(cache) : cache[j].key = cache[i].key => j = i)
  /\ [][\A i \in 1..Len(cache), j \in 1..Len(cache') :
          (cache'[j].key = cache[i].key
           /\ cache'[j].expiresAt # cache[i].expiresAt)
          => /\ IsCall
             /\ call'.op = "set"
             /\ getCacheKey(call'.key) = cache[i].key
       ]_vars

\* a key was set again at a later clock value without being evicted: its
\* entry is still ahead of an entry written before that second set
C15_Witness ==
  /\ call.op = "set"
  /\ Len(cache) = 2
  /\ cache[1].key = getCacheKey(call.key)
  /\ hist[cache[1].key].at = now
  /\ hist[cache[2].key].at < now
  /\ cache[1].expiresAt > cache[2].expiresAt

\* C17 (eviction always finds a victim): run on a map that is non-empty and
\* holds at least capacity entries, evictEntryIfOverCapacity deletes exactly
\* one entry, whatever the canonical keys in the map; it leaves the map
\* unchanged only when the map is empty or holds fewer than capacity
\* entries.  It runs on the map as pruneExpiredEntries leaves it.
C17_EvictionFindsVictim ==
  LET pruned == pruneExpiredEntries(cache, now)
      kept == evictEntryIfOverCapacity(pruned)
  IN IF pruned # <<>> /\ Len(pruned) >= capacity
     THEN Len(kept) = Len(pruned) - 1
     ELSE kept = pruned

\* C18 (no stale or resurrected values): a key reads as absent if it was
\* never set, or if since its most recent set it was evicted or cleared or
\* has expired; otherwise it reads as absent or as exactly the value of its
\* most recent set.
C18_NoStaleValues ==
  \A key \in K :
    LET h == hist[getCacheKey(key)]
        result == get(cache, key, now).result
    IN /\ h.status \in {"never", "gone"} => result = Absent
       /\ h.status = "set" =>
            /\ result \in {Absent, h.value}
            /\ h.at + ttlMs <= now => result = Absent

\* a key that was evicted by a later set (clear was not called) has just
\* been read as absent while the map holds other entries
C18_Witness ==
  /\ call.op = "get"
  /\ call.result = Absent
  /\ hist[getCacheKey(call.key)] = Gone
  /\ setLog.distinct
  /\ cache # <<>>

\* C16 (atomicity requirement of set): when the set calls run one after the
\* other, none starting while another is between its statements, the map
\* holds at most capacity entries (capacity >= 1) whenever a set has
\* completed and none is under way.  (The other half of the claim, that
\* interleaved sets reach a map larger than capacity, is C16_Overflow.)
C16_AtomicSetsKeepBound ==
  (/\ capacity >= 1
   /\ ~overlapped
   /\ call.op = "set"
   /\ \A p \in Callers : pending[p].pc = "idle")
  => Len(cache) <= capacity

\* two sets of string keys have run interleaved and left more than capacity
\* entries, none of them under the undefined key
C16_Overflow ==
  /\ capacity >= 1
  /\ ttlMs > 0
  /\ overlapped
  /\ \A p \in Callers : pending[p].pc = "idle"
  /\ Len(cache) > capacity
  /\ \A i \in 1..Len(cache) : Truthy(cache[i].key)

====
